---- MODULE Spec2Model ----
(***************************************************************************)
(* State machine of the root component App (frontend-web/src/App.js): the  *)
(* six useState cells, the localStorage session store, and the gateway     *)
(* calls (getLatestDataset, logout, downloadPDF) that are in flight.       *)
(*                                                                         *)
(* One action per handler.  A handler that awaits a gateway call is split  *)
(* at the await: the part before it is one action (the dispatch), the part *)
(* after it is one action per outcome (resolved / rejected).  JavaScript   *)
(* runs each part to completion, so each part is one atomic step.          *)
(***************************************************************************)
EXTENDS Integers, FiniteSets, Sequences, TLC

VARIABLES
    currentDataset,   \* useState(null), line 26
    loading,          \* useState(false), line 29
    error,            \* useState(null), line 32
    isAuthenticated,  \* useState(false), line 35
    user,             \* useState(null), line 36
    activeTab,        \* useState('upload'), line 39
    localStorage,     \* the keys 'authToken' and 'user' of window.localStorage
    mounted,          \* whether the mount effect (line 42) has run
    pendingFetch,     \* getLatestDataset() calls in flight
    fetchCalls,       \* getLatestDataset() calls dispatched so far
    pendingLogout,    \* logout() calls in flight
    pendingDownload,  \* downloadPDF(id) calls in flight, per id
    ev                \* the handler part that ran last, with its inputs

vars == <<currentDataset, loading, error, isAuthenticated, user, activeTab,
          localStorage, mounted, pendingFetch, fetchCalls, pendingLogout,
          pendingDownload, ev>>

-----------------------------------------------------------------------------
(* Bounds and input domains *)

\* User-initiated gateway calls (logout, downloadPDF) in flight at one time.
MaxInFlight == 2

\* JavaScript null for object-valued cells (currentDataset, user).
NullObj == [null |-> TRUE]

\* JavaScript null for text-valued cells (error, localStorage.getItem).
NullStr == "(null)"

DatasetIds == {"d0", "d1"}

\* A dataset is an opaque record with an id (currentDataset.id, line 116).
Datasets == {[id |-> i] : i \in DatasetIds}

\* A user record is opaque but for its display field (user?.username, line 132).
UserRecords == {[username |-> "alice"], [username |-> "bob"]}

Tokens == {"tok1", "tok2"}

\* HTTP statuses a rejected getLatestDataset() carries (line 66).
Statuses == {404, 500}

Tabs == {"upload", "summary", "table", "charts", "history", "login"}

DownloadFailedMsg == "Failed to download PDF"

-----------------------------------------------------------------------------
(* Serialization of the user record (lines 48 and 96) *)

\* JSON.stringify(userData) for a record {username: ...}.
JSONstringify(u) == "{\"username\":\"" \o u.username \o "\"}"

\* JSON.parse(savedUser): the record whose JSON text is s; "null" parses to null.
JSONparse(s) ==
    IF s = "null" THEN NullObj
    ELSE CHOOSE u \in UserRecords : JSONstringify(u) = s

\* JavaScript truthiness of a text read from localStorage: null and "" are falsy.
Truthy(s) == s # NullStr /\ s # ""

StoredUsers == {JSONstringify(u) : u \in UserRecords}

-----------------------------------------------------------------------------
(* The event record: which handler part ran last, and with which inputs *)

Event(name, d, u, tok, tab, status) ==
    [name |-> name, dataset |-> d, user |-> u, token |-> tok, tab |-> tab,
     status |-> status]

NoEvent == Event("init", NullObj, NullObj, NullStr, NullStr, 0)

Init ==
    /\ currentDataset = NullObj
    /\ loading = FALSE
    /\ error = NullStr
    /\ isAuthenticated = FALSE
    /\ user = NullObj
    /\ activeTab = "upload"
    /\ localStorage \in [authToken : {NullStr} \cup Tokens,
                         user : {NullStr} \cup StoredUsers]
    /\ mounted = FALSE
    /\ pendingFetch = 0
    /\ fetchCalls = 0
    /\ pendingLogout = 0
    /\ pendingDownload = [i \in DatasetIds |-> 0]
    /\ ev = NoEvent

-----------------------------------------------------------------------------
(* Helpers *)

\* Number of user-initiated gateway calls in flight.
RECURSIVE SumDownloads(_)
SumDownloads(S) ==
    IF S = {} THEN 0
    ELSE LET i == CHOOSE x \in S : TRUE
         IN pendingDownload[i] + SumDownloads(S \ {i})

UserCallsInFlight == pendingLogout + SumDownloads(DatasetIds)

\* What services/api logout() leaves in the session store when it succeeds:
\* both keys removed.
ClearedStorage == [authToken |-> NullStr, user |-> NullStr]

\* ControlEnabled as it would be with the disabled attribute left off the
\* Summary, Data Table and Charts buttons.
ControlEnabled_NoDisabledAttr(t) ==
    CASE t = "login" -> ~isAuthenticated
      [] OTHER -> TRUE

\* ControlEnabled as it would be with the Login button rendered regardless of
\* isAuthenticated.
ControlEnabled_LoginAlwaysShown(t) ==
    CASE t \in {"summary", "table", "charts"} -> currentDataset # NullObj
      [] OTHER -> TRUE

\* The disabled / conditional-render conditions of the navigation controls:
\* Summary, Data Table and Charts are disabled without a dataset (lines 160,
\* 167, 174); the Login button is rendered only while unauthenticated (lines
\* 130-144); Upload and History are always enabled (lines 151-156, 178-183).
ControlEnabled(t) ==
    CASE t \in {"summary", "table", "charts"} -> currentDataset # NullObj
      [] t = "login" -> ~isAuthenticated
      [] OTHER -> TRUE

-----------------------------------------------------------------------------
(* Mount effect and loadLatestDataset (lines 42-72) *)

\* Mount as it would be with `token || savedUser` in place of
\* `token && savedUser` (line 46).
Mount_TokenOrUser ==
    /\ ~mounted
    /\ mounted' = TRUE
    /\ LET token == localStorage.authToken
           savedUser == localStorage.user
       IN IF Truthy(token) \/ Truthy(savedUser)
          THEN /\ isAuthenticated' = TRUE
               /\ user' = IF Truthy(savedUser) THEN JSONparse(savedUser)
                          ELSE NullObj
          ELSE UNCHANGED <<isAuthenticated, user>>
    /\ loading' = TRUE
    /\ pendingFetch' = pendingFetch + 1
    /\ fetchCalls' = fetchCalls + 1
    /\ ev' = Event("mount", NullObj, NullObj, NullStr, NullStr, 0)
    /\ UNCHANGED <<currentDataset, error, activeTab, localStorage,
                   pendingLogout, pendingDownload>>

\* useEffect(..., []): reads the session store, restores the session when both
\* keys are truthy, then runs loadLatestDataset() up to its await:
\* setLoading(true) and the dispatch of getLatestDataset().
Mount ==
    /\ ~mounted
    /\ mounted' = TRUE
    /\ LET token == localStorage.authToken
           savedUser == localStorage.user
       IN IF Truthy(token) /\ Truthy(savedUser)
          THEN /\ isAuthenticated' = TRUE
               /\ user' = JSONparse(savedUser)
          ELSE UNCHANGED <<isAuthenticated, user>>
    /\ loading' = TRUE
    /\ pendingFetch' = pendingFetch + 1
    /\ fetchCalls' = fetchCalls + 1
    /\ ev' = Event("mount", NullObj, NullObj, NullStr, NullStr, 0)
    /\ UNCHANGED <<currentDataset, error, activeTab, localStorage,
                   pendingLogout, pendingDownload>>

\* LoadResolved as it would be with setLoading(false) in the catch block
\* instead of a finally block: a resolved load leaves loading as it was.
LoadResolved_LoadingNotCleared(data) ==
    /\ pendingFetch > 0
    /\ pendingFetch' = pendingFetch - 1
    /\ currentDataset' = data
    /\ error' = NullStr
    /\ ev' = Event("loadResolved", data, NullObj, NullStr, NullStr, 200)
    /\ UNCHANGED <<loading, isAuthenticated, user, activeTab, localStorage,
                   mounted, fetchCalls, pendingLogout, pendingDownload>>

\* LoadResolved as it would be if the payload were applied only when no
\* dataset had been set in the meantime.
LoadResolved_KeepsNewerDataset(data) ==
    /\ pendingFetch > 0
    /\ pendingFetch' = pendingFetch - 1
    /\ currentDataset' = IF currentDataset = NullObj THEN data ELSE currentDataset
    /\ error' = NullStr
    /\ loading' = FALSE
    /\ ev' = Event("loadResolved", data, NullObj, NullStr, NullStr, 200)
    /\ UNCHANGED <<isAuthenticated, user, activeTab, localStorage, mounted,
                   fetchCalls, pendingLogout, pendingDownload>>

\* LoadResolved as it would be without setError(null) (line 63).
LoadResolved_KeepsError(data) ==
    /\ pendingFetch > 0
    /\ pendingFetch' = pendingFetch - 1
    /\ currentDataset' = data
    /\ loading' = FALSE
    /\ ev' = Event("loadResolved", data, NullObj, NullStr, NullStr, 200)
    /\ UNCHANGED <<error, isAuthenticated, user, activeTab, localStorage,
                   mounted, fetchCalls, pendingLogout, pendingDownload>>

\* loadLatestDataset after the await, try branch then finally (lines 62-63, 70).
LoadResolved(data) ==
    /\ pendingFetch > 0
    /\ pendingFetch' = pendingFetch - 1
    /\ currentDataset' = data
    /\ error' = NullStr
    /\ loading' = FALSE
    /\ ev' = Event("loadResolved", data, NullObj, NullStr, NullStr, 200)
    /\ UNCHANGED <<isAuthenticated, user, activeTab, localStorage, mounted,
                   fetchCalls, pendingLogout, pendingDownload>>

\* LoadRejected as it would be without the finally block (line 70): a rejected
\* load leaves loading as it was.
LoadRejected_NoFinally(status) ==
    /\ pendingFetch > 0
    /\ pendingFetch' = pendingFetch - 1
    /\ ev' = Event("loadRejected", NullObj, NullObj, NullStr, NullStr, status)
    /\ UNCHANGED <<currentDataset, loading, error, isAuthenticated, user,
                   activeTab, localStorage, mounted, fetchCalls, pendingLogout,
                   pendingDownload>>

\* LoadRejected as it would be if the catch block surfaced the failures it
\* logs (status other than 404) in the error cell.
LoadRejected_SurfacesError(status) ==
    /\ pendingFetch > 0
    /\ pendingFetch' = pendingFetch - 1
    /\ loading' = FALSE
    /\ error' = IF status # 404 THEN "Error loading dataset" ELSE error
    /\ ev' = Event("loadRejected", NullObj, NullObj, NullStr, NullStr, status)
    /\ UNCHANGED <<currentDataset, isAuthenticated, user, activeTab,
                   localStorage, mounted, fetchCalls, pendingLogout,
                   pendingDownload>>

\* loadLatestDataset after the await, catch branch then finally (lines 64-70):
\* a status other than 404 is written to the console only.
LoadRejected(status) ==
    /\ pendingFetch > 0
    /\ pendingFetch' = pendingFetch - 1
    /\ loading' = FALSE
    /\ ev' = Event("loadRejected", NullObj, NullObj, NullStr, NullStr, status)
    /\ UNCHANGED <<currentDataset, error, isAuthenticated, user, activeTab,
                   localStorage, mounted, fetchCalls, pendingLogout,
                   pendingDownload>>

-----------------------------------------------------------------------------
(* Synchronous handlers (lines 77-99, and the inline setters of the view) *)

\* handleUploadSuccess as it would be without setError(null) (line 80).
handleUploadSuccess_KeepsError(data) ==
    /\ mounted
    /\ currentDataset' = data.dataset
    /\ activeTab' = "summary"
    /\ ev' = Event("uploadSucceeded", data.dataset, NullObj, NullStr, NullStr, 0)
    /\ UNCHANGED <<loading, error, isAuthenticated, user, localStorage,
                   mounted, pendingFetch, fetchCalls, pendingLogout,
                   pendingDownload>>

\* handleUploadSuccess(data), lines 77-81.
handleUploadSuccess(data) ==
    /\ mounted
    /\ currentDataset' = data.dataset
    /\ activeTab' = "summary"
    /\ error' = NullStr
    /\ ev' = Event("uploadSucceeded", data.dataset, NullObj, NullStr, NullStr, 0)
    /\ UNCHANGED <<loading, isAuthenticated, user, localStorage, mounted,
                   pendingFetch, fetchCalls, pendingLogout, pendingDownload>>

\* handleSelectDataset as it would be with the setError(null) that
\* handleUploadSuccess has.
handleSelectDataset_ClearsError(dataset) ==
    /\ mounted
    /\ currentDataset' = dataset
    /\ activeTab' = "summary"
    /\ error' = NullStr
    /\ ev' = Event("selectDataset", dataset, NullObj, NullStr, NullStr, 0)
    /\ UNCHANGED <<loading, isAuthenticated, user, localStorage, mounted,
                   pendingFetch, fetchCalls, pendingLogout, pendingDownload>>

\* handleSelectDataset(dataset), lines 86-89.
handleSelectDataset(dataset) ==
    /\ mounted
    /\ currentDataset' = dataset
    /\ activeTab' = "summary"
    /\ ev' = Event("selectDataset", dataset, NullObj, NullStr, NullStr, 0)
    /\ UNCHANGED <<loading, error, isAuthenticated, user, localStorage,
                   mounted, pendingFetch, fetchCalls, pendingLogout,
                   pendingDownload>>

\* handleLoginSuccess as it would be without the second setItem (line 96):
\* the user record is not persisted.
handleLoginSuccess_UserNotStored(userData, token) ==
    /\ mounted
    /\ ~isAuthenticated
    /\ localStorage' = [localStorage EXCEPT !.authToken = token]
    /\ isAuthenticated' = TRUE
    /\ user' = userData
    /\ ev' = Event("loginSucceeded", NullObj, userData, token, NullStr, 0)
    /\ UNCHANGED <<currentDataset, loading, error, activeTab, mounted,
                   pendingFetch, fetchCalls, pendingLogout, pendingDownload>>

\* handleLoginSuccess as it would be without the first setItem (line 95): the
\* token is not persisted.
handleLoginSuccess_TokenNotStored(userData, token) ==
    /\ mounted
    /\ ~isAuthenticated
    /\ localStorage' = [localStorage EXCEPT !.user = JSONstringify(userData)]
    /\ isAuthenticated' = TRUE
    /\ user' = userData
    /\ ev' = Event("loginSucceeded", NullObj, userData, token, NullStr, 0)
    /\ UNCHANGED <<currentDataset, loading, error, activeTab, mounted,
                   pendingFetch, fetchCalls, pendingLogout, pendingDownload>>

\* handleLoginSuccess as it would be with a call of loadLatestDataset() added
\* after the login, to reload the data for the new session.
handleLoginSuccess_Refetches(userData, token) ==
    /\ mounted
    /\ ~isAuthenticated
    /\ localStorage' = [authToken |-> token, user |-> JSONstringify(userData)]
    /\ isAuthenticated' = TRUE
    /\ user' = userData
    /\ loading' = TRUE
    /\ pendingFetch' = pendingFetch + 1
    /\ fetchCalls' = fetchCalls + 1
    /\ ev' = Event("loginSucceeded", NullObj, userData, token, NullStr, 0)
    /\ UNCHANGED <<currentDataset, error, activeTab, mounted, pendingLogout,
                   pendingDownload>>

\* handleLoginSuccess(userData, token), lines 94-99.  Login, which calls it,
\* is rendered only while unauthenticated (line 206).
handleLoginSuccess(userData, token) ==
    /\ mounted
    /\ ~isAuthenticated
    /\ localStorage' = [authToken |-> token, user |-> JSONstringify(userData)]
    /\ isAuthenticated' = TRUE
    /\ user' = userData
    /\ ev' = Event("loginSucceeded", NullObj, userData, token, NullStr, 0)
    /\ UNCHANGED <<currentDataset, loading, error, activeTab, mounted,
                   pendingFetch, fetchCalls, pendingLogout, pendingDownload>>

\* onClick={() => setActiveTab(t)} of an enabled control (lines 139, 153, 159,
\* 166, 173, 180).
setActiveTab(t) ==
    /\ mounted
    /\ ControlEnabled(t)
    /\ activeTab' = t
    /\ ev' = Event("requestTab", NullObj, NullObj, NullStr, t, 0)
    /\ UNCHANGED <<currentDataset, loading, error, isAuthenticated, user,
                   localStorage, mounted, pendingFetch, fetchCalls,
                   pendingLogout, pendingDownload>>

\* onClick={() => setError(null)} of the banner, rendered while error is
\* truthy (lines 189-194).
DismissError ==
    /\ mounted
    /\ error # NullStr
    /\ error' = NullStr
    /\ ev' = Event("dismissError", NullObj, NullObj, NullStr, NullStr, 0)
    /\ UNCHANGED <<currentDataset, loading, isAuthenticated, user, activeTab,
                   localStorage, mounted, pendingFetch, fetchCalls,
                   pendingLogout, pendingDownload>>

-----------------------------------------------------------------------------
(* handleLogout (lines 104-108) *)

\* handleLogout up to its await: the dispatch of logout().  The Logout button
\* is rendered only while authenticated (lines 130-136) and stays clickable
\* while an earlier logout() is in flight.
handleLogout ==
    /\ mounted
    /\ isAuthenticated
    /\ UserCallsInFlight < MaxInFlight
    /\ pendingLogout' = pendingLogout + 1
    /\ ev' = Event("requestLogout", NullObj, NullObj, NullStr, NullStr, 0)
    /\ UNCHANGED <<currentDataset, loading, error, isAuthenticated, user,
                   activeTab, localStorage, mounted, pendingFetch, fetchCalls,
                   pendingDownload>>

\* LogoutResolved as it would be without setUser(null) (line 107).
LogoutResolved_KeepsUser ==
    /\ pendingLogout > 0
    /\ pendingLogout' = pendingLogout - 1
    /\ localStorage' = ClearedStorage
    /\ isAuthenticated' = FALSE
    /\ ev' = Event("logoutResolved", NullObj, NullObj, NullStr, NullStr, 200)
    /\ UNCHANGED <<currentDataset, loading, error, user, activeTab, mounted,
                   pendingFetch, fetchCalls, pendingDownload>>

\* LogoutResolved as it would be if it also dropped the active dataset of the
\* user who logged out.
LogoutResolved_ClearsDataset ==
    /\ pendingLogout > 0
    /\ pendingLogout' = pendingLogout - 1
    /\ localStorage' = ClearedStorage
    /\ isAuthenticated' = FALSE
    /\ user' = NullObj
    /\ currentDataset' = NullObj
    /\ ev' = Event("logoutResolved", NullObj, NullObj, NullStr, NullStr, 200)
    /\ UNCHANGED <<loading, error, activeTab, mounted, pendingFetch,
                   fetchCalls, pendingDownload>>

\* handleLogout after the await, logout() resolved (lines 106-107).
LogoutResolved ==
    /\ pendingLogout > 0
    /\ pendingLogout' = pendingLogout - 1
    /\ localStorage' = ClearedStorage
    /\ isAuthenticated' = FALSE
    /\ user' = NullObj
    /\ ev' = Event("logoutResolved", NullObj, NullObj, NullStr, NullStr, 200)
    /\ UNCHANGED <<currentDataset, loading, error, activeTab, mounted,
                   pendingFetch, fetchCalls, pendingDownload>>

\* LogoutRejected as it would be with lines 106-107 in a finally block: the
\* session is reset even when logout() is rejected.
LogoutRejected_ResetsSession ==
    /\ pendingLogout > 0
    /\ pendingLogout' = pendingLogout - 1
    /\ isAuthenticated' = FALSE
    /\ user' = NullObj
    /\ ev' = Event("logoutRejected", NullObj, NullObj, NullStr, NullStr, 500)
    /\ UNCHANGED <<currentDataset, loading, error, activeTab, localStorage,
                   mounted, pendingFetch, fetchCalls, pendingDownload>>

\* logout() rejected: the await throws, handleLogout has no catch, and lines
\* 106-107 do not run.
LogoutRejected ==
    /\ pendingLogout > 0
    /\ pendingLogout' = pendingLogout - 1
    /\ ev' = Event("logoutRejected", NullObj, NullObj, NullStr, NullStr, 500)
    /\ UNCHANGED <<currentDataset, loading, error, isAuthenticated, user,
                   activeTab, localStorage, mounted, pendingFetch, fetchCalls,
                   pendingDownload>>

-----------------------------------------------------------------------------
(* handleDownloadPDF (lines 113-121) *)

\* handleDownloadPDF as it would be with an else branch reporting the missing
\* dataset in the error cell.
handleDownloadPDF_ReportsNoDataset ==
    /\ mounted
    /\ IF currentDataset # NullObj
       THEN /\ UserCallsInFlight < MaxInFlight
            /\ pendingDownload' =
                   [pendingDownload EXCEPT ![currentDataset.id] = @ + 1]
            /\ UNCHANGED error
       ELSE /\ error' = DownloadFailedMsg
            /\ UNCHANGED pendingDownload
    /\ ev' = Event("requestDownload", currentDataset, NullObj, NullStr, NullStr, 0)
    /\ UNCHANGED <<currentDataset, loading, isAuthenticated, user, activeTab,
                   localStorage, mounted, pendingFetch, fetchCalls,
                   pendingLogout>>

\* handleDownloadPDF as it would be with setLoading(true) before the dispatch
\* of downloadPDF().
handleDownloadPDF_SetsLoading ==
    /\ mounted
    /\ IF currentDataset # NullObj
       THEN /\ UserCallsInFlight < MaxInFlight
            /\ loading' = TRUE
            /\ pendingDownload' =
                   [pendingDownload EXCEPT ![currentDataset.id] = @ + 1]
       ELSE UNCHANGED <<loading, pendingDownload>>
    /\ ev' = Event("requestDownload", currentDataset, NullObj, NullStr, NullStr, 0)
    /\ UNCHANGED <<currentDataset, error, isAuthenticated, user, activeTab,
                   localStorage, mounted, pendingFetch, fetchCalls,
                   pendingLogout>>

\* handleDownloadPDF up to its await: with a dataset, the dispatch of
\* downloadPDF(currentDataset.id); without one, nothing.
handleDownloadPDF ==
    /\ mounted
    /\ IF currentDataset # NullObj
       THEN /\ UserCallsInFlight < MaxInFlight
            /\ pendingDownload' =
                   [pendingDownload EXCEPT ![currentDataset.id] = @ + 1]
       ELSE UNCHANGED pendingDownload
    /\ ev' = Event("requestDownload", currentDataset, NullObj, NullStr, NullStr, 0)
    /\ UNCHANGED <<currentDataset, loading, error, isAuthenticated, user,
                   activeTab, localStorage, mounted, pendingFetch, fetchCalls,
                   pendingLogout>>

\* handleDownloadPDF after the await, downloadPDF(id) resolved: nothing to do.
DownloadResolved(id) ==
    /\ pendingDownload[id] > 0
    /\ pendingDownload' = [pendingDownload EXCEPT ![id] = @ - 1]
    /\ ev' = Event("downloadResolved", [id |-> id], NullObj, NullStr, NullStr, 200)
    /\ UNCHANGED <<currentDataset, loading, error, isAuthenticated, user,
                   activeTab, localStorage, mounted, pendingFetch, fetchCalls,
                   pendingLogout>>

\* DownloadRejected as it would be with an empty catch block (no setError).
DownloadRejected_Swallowed(id) ==
    /\ pendingDownload[id] > 0
    /\ pendingDownload' = [pendingDownload EXCEPT ![id] = @ - 1]
    /\ ev' = Event("downloadRejected", [id |-> id], NullObj, NullStr, NullStr, 500)
    /\ UNCHANGED <<currentDataset, loading, error, isAuthenticated, user,
                   activeTab, localStorage, mounted, pendingFetch, fetchCalls,
                   pendingLogout>>

\* handleDownloadPDF after the await, downloadPDF(id) rejected (lines 117-119).
DownloadRejected(id) ==
    /\ pendingDownload[id] > 0
    /\ pendingDownload' = [pendingDownload EXCEPT ![id] = @ - 1]
    /\ error' = DownloadFailedMsg
    /\ ev' = Event("downloadRejected", [id |-> id], NullObj, NullStr, NullStr, 500)
    /\ UNCHANGED <<currentDataset, loading, isAuthenticated, user, activeTab,
                   localStorage, mounted, pendingFetch, fetchCalls,
                   pendingLogout>>

-----------------------------------------------------------------------------
(* Specification *)

Next ==
    \/ Mount
    \/ \E data \in Datasets : LoadResolved(data)
    \/ \E status \in Statuses : LoadRejected(status)
    \/ \E d \in Datasets : handleUploadSuccess([dataset |-> d])
    \/ \E d \in Datasets : handleSelectDataset(d)
    \/ \E u \in UserRecords, tok \in Tokens : handleLoginSuccess(u, tok)
    \/ handleLogout
    \/ LogoutResolved
    \/ LogoutRejected
    \/ handleDownloadPDF
    \/ \E id \in DatasetIds : DownloadResolved(id)
    \/ \E id \in DatasetIds : DownloadRejected(id)
    \/ \E t \in Tabs : setActiveTab(t)
    \/ DismissError

Spec == Init /\ [][Next]_vars

\* The getLatestDataset() call settles: resolved with a dataset, or rejected.
LoadCompletes ==
    \/ \E data \in Datasets : LoadResolved(data)
    \/ \E status \in Statuses : LoadRejected(status)

\* Spec with a gateway that eventually answers the getLatestDataset() call;
\* user events and the other calls may or may not happen.
FairSpec == Spec /\ WF_vars(LoadCompletes)

TypeOK ==
    /\ currentDataset \in Datasets \cup {NullObj}
    /\ loading \in BOOLEAN
    /\ error \in {NullStr, DownloadFailedMsg}
    /\ isAuthenticated \in BOOLEAN
    /\ user \in UserRecords \cup {NullObj}
    /\ activeTab \in Tabs
    /\ mounted \in BOOLEAN
    /\ pendingFetch \in 0..1
    /\ pendingLogout \in 0..MaxInFlight

-----------------------------------------------------------------------------
(* Properties *)

DatasetTabs == {"summary", "table", "charts"}

\* C1 (invariant I1): in every reachable state, when the active tab is one of
\* summary, table or charts, a dataset is present.
C1_DatasetTabsNeedDataset ==
    activeTab \in DatasetTabs => currentDataset # NullObj

\* C1 witness: the Data Table tab was requested and is active, with a dataset.
C1_Witness ==
    /\ ev.name = "requestTab"
    /\ ev.tab = "table"
    /\ activeTab = "table"
    /\ currentDataset # NullObj

\* C2 (invariant I3): in every reachable state, isAuthenticated is true exactly
\* when user is present.
C2_AuthenticatedIffUser ==
    isAuthenticated <=> (user # NullObj)

\* C2 witness: a logout completed while the mount-time fetch was still in
\* flight, and left the session unauthenticated with no user.
C2_Witness ==
    /\ ev.name = "logoutResolved"
    /\ pendingFetch = 1
    /\ ~isAuthenticated
    /\ user = NullObj

\* C3 as stated (invariant I2): in every reachable state, the login tab is
\* active only while the session is unauthenticated.
C3_LoginTabImpliesUnauthenticated ==
    activeTab = "login" => ~isAuthenticated

\* C3 amended: the login tab is entered only while unauthenticated, and a state
\* with the login tab active and the session authenticated arises only from
\* loginSucceeded handled on the login tab (which leaves the tab unchanged), or
\* from such a state itself.
C3_LoginTabEnteredUnauthenticated ==
    [][ /\ (activeTab' = "login" /\ activeTab # "login") => ~isAuthenticated
        /\ (activeTab' = "login" /\ isAuthenticated') =>
               /\ activeTab = "login"
               /\ isAuthenticated \/ ev'.name = "loginSucceeded"
      ]_vars

\* C3 witness: loginSucceeded was handled on the login tab; the tab is still
\* login and the session is authenticated.
C3_Witness ==
    /\ ev.name = "loginSucceeded"
    /\ activeTab = "login"
    /\ isAuthenticated

-----------------------------------------------------------------------------
(* Gateway calls dispatched and completed by a step *)

FetchDispatched == pendingFetch' > pendingFetch
FetchCompleted == pendingFetch' < pendingFetch
LogoutDispatched == pendingLogout' > pendingLogout
LogoutCompleted == pendingLogout' < pendingLogout
DownloadDispatched == \E i \in DatasetIds : pendingDownload'[i] > pendingDownload[i]
DownloadCompleted == \E i \in DatasetIds : pendingDownload'[i] < pendingDownload[i]

NoCallDispatched ==
    /\ pendingFetch' <= pendingFetch
    /\ fetchCalls' = fetchCalls
    /\ pendingLogout' <= pendingLogout
    /\ \A i \in DatasetIds : pendingDownload'[i] <= pendingDownload[i]

\* C4 as stated: every step that dispatches a gateway call (getLatestDataset,
\* downloadPDF, logout) leaves loading true, and every step that completes one
\* leaves loading false.
C4_EveryCallSetsAndClearsLoading ==
    [][ /\ (FetchDispatched \/ LogoutDispatched \/ DownloadDispatched) => loading'
        /\ (FetchCompleted \/ LogoutCompleted \/ DownloadCompleted) => ~loading'
      ]_vars

\* C4 amended: only getLatestDataset follows the three-phase contract: its
\* dispatch leaves loading true and its completion, resolved or rejected,
\* leaves loading false; the dispatch and the completion of logout and of
\* downloadPDF leave loading as it was.
C4_OnlyFetchSetsAndClearsLoading ==
    [][ /\ FetchDispatched => loading'
        /\ FetchCompleted => ~loading'
        /\ (LogoutDispatched \/ LogoutCompleted \/ DownloadDispatched
               \/ DownloadCompleted) => loading' = loading
      ]_vars

\* C4 witness: the load was rejected and loading is false while a logout and
\* a download are still in flight.
C4_Witness ==
    /\ ev.name = "loadRejected"
    /\ ~loading
    /\ pendingLogout > 0
    /\ SumDownloads(DatasetIds) > 0

\* C5: a step in which getLatestDataset is rejected, with status 404 or any
\* other, leaves error, currentDataset and activeTab (and the session) as they
\* were; of the state cells only loading changes, to false.
C5_LoadRejectedChangesOnlyLoading ==
    [][ ev'.name = "loadRejected" =>
            /\ UNCHANGED <<error, currentDataset, activeTab, isAuthenticated,
                           user, localStorage>>
            /\ loading' = FALSE
      ]_vars

\* C5 witness: the load was rejected with status 500 in a state that had an
\* error banner and a dataset, on the charts tab; all three are still there.
C5_Witness ==
    /\ ev.name = "loadRejected"
    /\ ev.status = 500
    /\ error = DownloadFailedMsg
    /\ currentDataset # NullObj
    /\ activeTab = "charts"

\* C6: a step handling uploadSucceeded(d) ends with currentDataset = d,
\* activeTab = summary and no error, and leaves isAuthenticated, user and
\* loading as they were.
C6_UploadSucceededEffect ==
    [][ ev'.name = "uploadSucceeded" =>
            /\ ev'.dataset \in Datasets
            /\ currentDataset' = ev'.dataset
            /\ activeTab' = "summary"
            /\ error' = NullStr
            /\ UNCHANGED <<isAuthenticated, user, loading>>
      ]_vars

\* C6 witness: uploadSucceeded(d1) was handled while the load was in flight
\* and the session authenticated.
C6_Witness ==
    /\ ev.name = "uploadSucceeded"
    /\ ev.dataset = [id |-> "d1"]
    /\ currentDataset = [id |-> "d1"]
    /\ loading
    /\ isAuthenticated

\* C7: the mount step, when the store holds a token and a user record, ends
\* authenticated with the user whose serialization is the stored text, and
\* otherwise ends unauthenticated with no user; in both cases it dispatches
\* one getLatestDataset call, and no other is ever dispatched.
C7_MountRestoresSession ==
    /\ [][ ev'.name = "mount" =>
               /\ IF localStorage.authToken # NullStr /\ localStorage.user # NullStr
                  THEN /\ isAuthenticated'
                       /\ user' \in UserRecords
                       /\ JSONstringify(user') = localStorage.user
                  ELSE /\ ~isAuthenticated'
                       /\ user' = NullObj
               /\ pendingFetch = 0 /\ pendingFetch' = 1
         ]_vars
    /\ [](fetchCalls = IF mounted THEN 1 ELSE 0)

\* C7 witness: mount has restored user bob from the store and the load result
\* has not arrived.
C7_Witness ==
    /\ ev.name = "mount"
    /\ isAuthenticated
    /\ user = [username |-> "bob"]
    /\ localStorage.authToken = "tok2"
    /\ pendingFetch = 1

\* C8: a step handling loginSucceeded(u, tok) while unauthenticated leaves
\* tok and a text that deserializes to u in the store, ends authenticated with
\* user u, and leaves activeTab, currentDataset, loading and error as they
\* were; a step in which logout() resolves ends unauthenticated with no user
\* and leaves activeTab and currentDataset as they were.
C8_LoginThenLogout ==
    [][ /\ (ev'.name = "loginSucceeded" /\ ~isAuthenticated) =>
               /\ localStorage'.authToken = ev'.token
               /\ localStorage'.user \in StoredUsers
               /\ JSONparse(localStorage'.user) = ev'.user
               /\ isAuthenticated'
               /\ user' = ev'.user
               /\ UNCHANGED <<activeTab, currentDataset, loading, error>>
        /\ ev'.name = "logoutResolved" =>
               /\ ~isAuthenticated'
               /\ user' = NullObj
               /\ UNCHANGED <<activeTab, currentDataset>>
      ]_vars

\* C8 witness: logout() resolved on the login tab with a dataset active; the
\* session is unauthenticated and the tab and dataset are still there.
C8_Witness ==
    /\ ev.name = "logoutResolved"
    /\ ~isAuthenticated
    /\ user = NullObj
    /\ activeTab = "login"
    /\ currentDataset = [id |-> "d0"]

\* C9: a step handling requestDownload with no dataset dispatches no gateway
\* call and leaves every state cell as it was.
C9_DownloadWithoutDatasetIsNoOp ==
    [][ (ev'.name = "requestDownload" /\ currentDataset = NullObj) =>
            UNCHANGED <<currentDataset, activeTab, loading, error,
                        isAuthenticated, user, localStorage, pendingFetch,
                        fetchCalls, pendingLogout, pendingDownload>>
      ]_vars

\* C9 witness: requestDownload was handled with no dataset.
C9_Witness ==
    /\ ev.name = "requestDownload"
    /\ ev.dataset = NullObj
    /\ currentDataset = NullObj
    /\ SumDownloads(DatasetIds) = 0

\* C10: a step handling requestDownload with a dataset dispatches exactly one
\* downloadPDF call, for the id of that dataset; a rejected downloadPDF sets
\* error to "Failed to download PDF" and leaves activeTab and currentDataset
\* as they were; a resolved one leaves error as it was; dismissError sets
\* error to null, changes nothing else and dispatches no call.
C10_DownloadAndDismiss ==
    [][ /\ (ev'.name = "requestDownload" /\ currentDataset # NullObj) =>
               /\ pendingDownload' =
                      [pendingDownload EXCEPT ![currentDataset.id] = @ + 1]
               /\ UNCHANGED <<pendingFetch, fetchCalls, pendingLogout>>
        /\ ev'.name = "downloadRejected" =>
               /\ error' = "Failed to download PDF"
               /\ UNCHANGED <<activeTab, currentDataset>>
        /\ ev'.name = "downloadResolved" => error' = error
        /\ ev'.name = "dismissError" =>
               /\ error' = NullStr
               /\ NoCallDispatched
               /\ UNCHANGED <<currentDataset, activeTab, loading,
                              isAuthenticated, user, localStorage,
                              pendingFetch, pendingLogout, pendingDownload>>
      ]_vars

\* C10 witness: the download of d0 was rejected after the active dataset had
\* become d1; the banner shows the message and d1 is still active.
C10_Witness ==
    /\ ev.name = "downloadRejected"
    /\ ev.dataset = [id |-> "d0"]
    /\ currentDataset = [id |-> "d1"]
    /\ error = "Failed to download PDF"


\* C11: the session store changes only in a step handling loginSucceeded,
\* which leaves the token and the serialized user in it, and in a step in
\* which logout() resolves, which leaves neither key in it; no other step
\* changes it; and a mount that finds neither key starts unauthenticated.
C11_StoreWrittenByLoginAndLogoutOnly ==
    [][ /\ localStorage' # localStorage =>
               ev'.name \in {"loginSucceeded", "logoutResolved"}
        /\ ev'.name = "loginSucceeded" =>
               /\ localStorage'.authToken = ev'.token
               /\ localStorage'.user = JSONstringify(ev'.user)
        /\ ev'.name = "logoutResolved" =>
               /\ localStorage'.authToken = NullStr
               /\ localStorage'.user = NullStr
        /\ (/\ ev'.name = "mount"
            /\ localStorage.authToken = NullStr
            /\ localStorage.user = NullStr) =>
               /\ ~isAuthenticated'
               /\ user' = NullObj
      ]_vars

\* C11 witness: logout() has resolved, after every other call has settled, and
\* the store holds neither a token nor a user.
C11_Witness ==
    /\ ev.name = "logoutResolved"
    /\ localStorage.authToken = NullStr
    /\ localStorage.user = NullStr
    /\ pendingFetch = 0
    /\ UserCallsInFlight = 0


\* C12: when getLatestDataset() eventually settles, a load in flight leads to
\* loading false with no load in flight, whatever user events are handled in
\* between; the settling step leaves activeTab as the user events set it, and
\* upload when it directly follows the mount.
C12_LoadingEventuallyFalse ==
    /\ (pendingFetch > 0) ~> (~loading /\ pendingFetch = 0)
    /\ [][ /\ FetchCompleted => activeTab' = activeTab
           /\ (ev.name = "mount" /\ FetchCompleted) => activeTab' = "upload"
         ]_vars

\* C12 witness: the load was rejected with 404 after the user had moved to the
\* history tab and requested a logout that is still in flight; loading is
\* false.
C12_Witness ==
    /\ ev.name = "loadRejected"
    /\ ev.status = 404
    /\ ~loading
    /\ pendingFetch = 0
    /\ activeTab = "history"
    /\ pendingLogout > 0


\* C13: a getLatestDataset() call in flight is taken out of flight only by its
\* own completion, never by another event; and the step in which it resolves
\* with payload d ends with currentDataset = d and no error, whatever dataset
\* an upload or a selection had set in the meantime, and leaves activeTab and
\* the session (authenticated or not) as they were.
C13_InFlightLoadAlwaysApplied ==
    [][ /\ FetchCompleted => ev'.name \in {"loadResolved", "loadRejected"}
        /\ ev'.name = "loadResolved" =>
               /\ ev'.dataset \in Datasets
               /\ currentDataset' = ev'.dataset
               /\ error' = NullStr
               /\ UNCHANGED <<activeTab, isAuthenticated, user>>
      ]_vars

\* C13 witness: the load resolved with d0 on the summary tab, unauthenticated,
\* while a download of d1 is still in flight: d1 had been made active and its
\* report requested while the load was pending, and d0 has replaced it.
C13_Witness ==
    /\ ev.name = "loadResolved"
    /\ ev.dataset = [id |-> "d0"]
    /\ currentDataset = [id |-> "d0"]
    /\ error = NullStr
    /\ activeTab = "summary"
    /\ pendingDownload["d1"] = 1
    /\ ~isAuthenticated


\* C14: with getLatestDataset() and downloadPDF() in flight together, the error
\* cell ends with what the later completion wrote: a rejected download
\* directly followed by a resolved load ends with no error (the banner is
\* lost), and a resolved load directly followed by a rejected download ends
\* with "Failed to download PDF".
C14_LastCompletionWinsError ==
    [][ /\ (ev.name = "downloadRejected" /\ ev'.name = "loadResolved") =>
               /\ error = DownloadFailedMsg
               /\ error' = NullStr
        /\ (ev.name = "loadResolved" /\ ev'.name = "downloadRejected") =>
               /\ error = NullStr
               /\ error' = DownloadFailedMsg
      ]_vars

\* C14 witness: a download was rejected while the load is still in flight; the
\* banner shows the message that a resolved load will clear.
C14_Witness ==
    /\ ev.name = "downloadRejected"
    /\ error = DownloadFailedMsg
    /\ pendingFetch = 1
    /\ loading


\* C15: a step in which logout() is rejected changes no state cell:
\* isAuthenticated, user, error, loading, activeTab and currentDataset are as
\* they were (an authenticated session stays authenticated, and the failure
\* is not written to the error cell).
C15_LogoutRejectedChangesNothing ==
    [][ ev'.name = "logoutRejected" =>
            UNCHANGED <<isAuthenticated, user, error, loading, activeTab,
                        currentDataset>>
      ]_vars

\* C15 witness: logout() was rejected; the session is still authenticated with
\* its user, and there is no error banner.
C15_Witness ==
    /\ ev.name = "logoutRejected"
    /\ isAuthenticated
    /\ user # NullObj
    /\ error = NullStr

\* C16: a step handling selectDataset(d) ends with currentDataset = d and
\* activeTab = summary and leaves error, loading, isAuthenticated and user as
\* they were; an error banner shown before the selection is still shown.
C16_SelectDatasetKeepsError ==
    [][ ev'.name = "selectDataset" =>
            /\ ev'.dataset \in Datasets
            /\ currentDataset' = ev'.dataset
            /\ activeTab' = "summary"
            /\ UNCHANGED <<error, loading, isAuthenticated, user>>
      ]_vars

\* C16 witness: selectDataset(d1) was handled and the banner of an earlier
\* failed download is still shown.
C16_Witness ==
    /\ ev.name = "selectDataset"
    /\ ev.dataset = [id |-> "d1"]
    /\ currentDataset = [id |-> "d1"]
    /\ activeTab = "summary"
    /\ error = DownloadFailedMsg


\* C17: each handler part dispatches the calls of its event and no other: the
\* mount dispatches one getLatestDataset(), a logout request one logout(), a
\* download request with a dataset one downloadPDF(); every other step (a
\* completion, successful or failed, uploadSucceeded, selectDataset,
\* loginSucceeded, requestTab, dismissError, a download request without a
\* dataset) dispatches none; so getLatestDataset() is dispatched once in all.
C17_OneCallPerEventNoRetry ==
    /\ [][ /\ ev'.name = "mount" =>
                  /\ pendingFetch' = pendingFetch + 1
                  /\ fetchCalls' = fetchCalls + 1
                  /\ UNCHANGED <<pendingLogout, pendingDownload>>
           /\ ev'.name = "requestLogout" =>
                  /\ pendingLogout' = pendingLogout + 1
                  /\ UNCHANGED <<pendingFetch, fetchCalls, pendingDownload>>
           /\ (ev'.name = "requestDownload" /\ currentDataset # NullObj) =>
                  /\ SumDownloads(DatasetIds)' = SumDownloads(DatasetIds) + 1
                  /\ UNCHANGED <<pendingFetch, fetchCalls, pendingLogout>>
           /\ (ev'.name = "requestDownload" /\ currentDataset = NullObj) =>
                  NoCallDispatched
           /\ ev'.name \notin {"mount", "requestLogout", "requestDownload"} =>
                  NoCallDispatched
         ]_vars
    /\ [](fetchCalls <= 1)

\* C17 witness: loginSucceeded was handled after the load had been rejected
\* (no dataset, no load in flight); no second getLatestDataset() was
\* dispatched.
C17_Witness ==
    /\ ev.name = "loginSucceeded"
    /\ currentDataset = NullObj
    /\ pendingFetch = 0
    /\ fetchCalls = 1


\* C18: once a dataset is present, no step makes it absent; in particular the
\* steps in which logout() resolves and in which the load is rejected leave
\* currentDataset as it was, so the dataset stays active, and the summary,
\* table and charts controls stay enabled, in the unauthenticated state.
C18_DatasetNeverReset ==
    [][ /\ currentDataset # NullObj => currentDataset' # NullObj
        /\ ev'.name \in {"logoutResolved", "loadRejected"} =>
               currentDataset' = currentDataset
        /\ (ev'.name = "logoutResolved" /\ currentDataset # NullObj) =>
               \A t \in DatasetTabs : ControlEnabled(t)'
      ]_vars

\* C18 witness: logout() resolved on the charts tab with a dataset active; the
\* session is unauthenticated and the dataset is still shown.
C18_Witness ==
    /\ ev.name = "logoutResolved"
    /\ ~isAuthenticated
    /\ currentDataset # NullObj
    /\ activeTab = "charts"

\* C19 as stated, for a logout completion that directly follows the login (so
\* that no logout was requested after the login): with the store holding the
\* token of loginSucceeded(u, tok), the step in which logout() resolves leaves
\* the session authenticated with user u.
C19_StaleLogoutKeepsNewSession ==
    [][ (/\ ev.name = "loginSucceeded"
         /\ localStorage.authToken = ev.token
         /\ ev'.name = "logoutResolved") =>
            /\ isAuthenticated'
            /\ user' = ev.user
      ]_vars

\* C20: in every reachable state loading is true exactly when a
\* getLatestDataset() call is in flight, and loading changes only in the mount
\* step and in the steps in which that call resolves or is rejected.
C20_LoadingIffLoadInFlight ==
    /\ [](loading <=> pendingFetch > 0)
    /\ [][ loading' # loading =>
               ev'.name \in {"mount", "loadResolved", "loadRejected"} ]_vars

\* C20 witness: a download was requested and rejected after the load had
\* settled, with a logout in flight; loading is false.
C20_Witness ==
    /\ ev.name = "downloadRejected"
    /\ pendingFetch = 0
    /\ pendingLogout > 0
    /\ ~loading

====
